---- MODULE Spec2Model ----
(***************************************************************************)
(* A model of scratch.ts: the Button algebra (Key, AndButton, OrButton,    *)
(* NotButton), the Keyboard device, the KernelScheduler and the Kernel's   *)
(* scene stack.                                                            *)
(***************************************************************************)
EXTENDS Integers, Sequences, FiniteSets, TLC

\* ------------------------------------------------------------------ bounds
MaxButtons == 3
MaxPending == 2
MaxCallbackOps == 2
MaxScenes == 2
MaxUpdateOps == 1

\* new KernelScheduler((dt) => this.tick(dt), 60)
TargetFPS == 60

\* The timestamps, in milliseconds, the platform may give a frame.
FrameTimes == {0, 5, 16, 17, 20, 34, 40}

\* The Scene objects of the game, and the dt the scheduler passes to a tick.
Scenes == {"A", "B", "C"}
TickDts == {17}

\* The key names the platform reports (e.key); the one the demo binds.
KeyNames == {"Enter", "Shift"}
DemoKeys == {"Enter"}

VARIABLES
    buttons,    \* every Button constructed so far, in construction order
    keys,       \* Keyboard.keys: the indices of the Keys issued by Keyboard.key
    states,     \* Keyboard.states: the set of key names whose property is true
    hist,       \* history, per button: what its update calls saw
    executing,  \* KernelScheduler.executing
    lastTick,   \* KernelScheduler.lastTick, in milliseconds
    requested,  \* frame notifications requested and not yet due
    inFrame,    \* frame notifications of the current frame not yet delivered
    clock,      \* the timestamp of the current frame, in milliseconds
    obs,        \* history of the scheduler: what its callback was passed
    scenes,     \* Kernel.scenes: the scene stack, the active scene last
    log,        \* history of the stack: the latest two calls that touched it
    seen,       \* history of Kernel.tick: what the latest tick did and saw
    taps        \* history of the Keyboard, per key name: the key events since
                \* the latest Keyboard.update and what that update made of them

buttonVars == <<buttons, keys, states, hist>>
schedVars == <<executing, lastTick, requested, inFrame, clock, obs>>
kernelVars == <<scenes, log, seen>>
vars == <<buttonVars, schedVars, kernelVars, taps>>

\* ------------------------------------------------------------ Button algebra

\* A Button object. wasDown is Button.wasDown; key and state are Key.key and
\* Key.state; left and right are the inner buttons of a composite (NotButton's
\* inner is left). Unused fields hold "" / 0 / FALSE.
KeyObject(name) ==
    [kind |-> "Key", key |-> name, left |-> 0, right |-> 0,
     wasDown |-> FALSE, state |-> FALSE]

AndObject(l, r) ==
    [kind |-> "And", key |-> "", left |-> l, right |-> r,
     wasDown |-> FALSE, state |-> FALSE]

OrObject(l, r) ==
    [kind |-> "Or", key |-> "", left |-> l, right |-> r,
     wasDown |-> FALSE, state |-> FALSE]

NotObject(i) ==
    [kind |-> "Not", key |-> "", left |-> i, right |-> 0,
     wasDown |-> FALSE, state |-> FALSE]

\* AndButton.isDown, OrButton.isDown, NotButton.isDown on the inner results.
\* (AndIsDownBug: a conjunction written as a disjunction.)
AndIsDownBug(l, r) == l \/ r
AndIsDown(l, r) == l /\ r

OrIsDown(l, r) == l \/ r

NotIsDown(i) == ~i

\* Key.isDown: the cached sample, never the raw map.
KeyIsDown(b) == b.state

\* isDown() of button i of the store bs, by virtual dispatch.
RECURSIVE IsDownIn(_, _)
IsDownIn(bs, i) ==
    LET b == bs[i] IN
    CASE b.kind = "Key" -> KeyIsDown(b)
      [] b.kind = "And" -> AndIsDown(IsDownIn(bs, b.left), IsDownIn(bs, b.right))
      [] b.kind = "Or"  -> OrIsDown(IsDownIn(bs, b.left), IsDownIn(bs, b.right))
      [] b.kind = "Not" -> NotIsDown(IsDownIn(bs, b.left))

IsDown(i) == IsDownIn(buttons, i)

IsUp(i) == ~IsDown(i)

PressedIn(bs, i) == IsDownIn(bs, i) /\ ~bs[i].wasDown
Pressed(i) == PressedIn(buttons, i)

ReleaseIn(bs, i) == ~IsDownIn(bs, i) /\ bs[i].wasDown
Release(i) == ReleaseIn(buttons, i)

\* Button.update: wasDown := isDown().
ButtonUpdate(bs, i) ==
    [bs EXCEPT ![i].wasDown = IsDownIn(bs, i)]

\* Key.update: super.update(dt), then resample the raw map.
\* (KeyUpdateBug: the resample made before super.update(dt).)
KeyUpdateBug(bs, i, raw) ==
    LET sampled == [bs EXCEPT ![i].state = (bs[i].key \in raw)]
    IN  ButtonUpdate(sampled, i)
KeyUpdate(bs, i, raw) ==
    LET stepped == ButtonUpdate(bs, i)
    IN  [stepped EXCEPT ![i].state = (bs[i].key \in raw)]

\* update() of button i, by virtual dispatch.
Update(bs, i, raw) ==
    IF bs[i].kind = "Key" THEN KeyUpdate(bs, i, raw) ELSE ButtonUpdate(bs, i)

\* Keyboard.update: keys.forEach(key => key.update(dt)), in order.
\* (KeyboardUpdateFirst: only the first Key registered is stepped.)
KeyboardUpdateFirst(bs, ks, raw) ==
    IF ks = << >> THEN bs ELSE KeyUpdate(bs, Head(ks), raw)
\* (KeyboardUpdateAll: every button that exists is stepped, composites too.)
RECURSIVE UpdateAll(_, _, _)
UpdateAll(bs, n, raw) ==
    IF n = 0 THEN bs ELSE Update(UpdateAll(bs, n - 1, raw), n, raw)
KeyboardUpdateAll(bs, ks, raw) == UpdateAll(bs, Len(bs), raw)
RECURSIVE KeyboardUpdate(_, _, _)
KeyboardUpdate(bs, ks, raw) ==
    IF ks = << >> THEN bs
    ELSE KeyboardUpdate(KeyUpdate(bs, Head(ks), raw), Tail(ks), raw)

\* ------------------------------------------------------------------ history

\* What is recorded when update is called on button i of bs: that it was
\* called, isDown() on entry, and for a Key the raw sample taken (s1) and the
\* one taken by the update before (s0).
NoHistory == [updated |-> FALSE, down |-> FALSE, s1 |-> FALSE, s0 |-> FALSE]

Stepped(h, bs, i, raw) ==
    [updated |-> TRUE,
     down    |-> IsDownIn(bs, i),
     s1      |-> (bs[i].kind = "Key" /\ bs[i].key \in raw),
     s0      |-> h.s1]

InSeq(x, s) == \E n \in 1..Len(s) : s[n] = x

\* -------------------------------------------------------------------- state

InitButtons ==
    /\ buttons = << >>
    /\ keys = << >>
    /\ states = {}
    /\ hist = << >>

\* Keyboard.key(name)
KeyboardKey(name) ==
    /\ Len(buttons) < MaxButtons
    /\ buttons' = Append(buttons, KeyObject(name))
    /\ keys' = Append(keys, Len(buttons) + 1)
    /\ hist' = Append(hist, NoHistory)
    /\ UNCHANGED states
    /\ UNCHANGED <<schedVars, kernelVars, taps>>

\* new AndButton(left, right)
NewAndButton(l, r) ==
    /\ Len(buttons) < MaxButtons
    /\ buttons' = Append(buttons, AndObject(l, r))
    /\ hist' = Append(hist, NoHistory)
    /\ UNCHANGED <<keys, states>>
    /\ UNCHANGED <<schedVars, kernelVars, taps>>

\* new OrButton(left, right)
NewOrButton(l, r) ==
    /\ Len(buttons) < MaxButtons
    /\ buttons' = Append(buttons, OrObject(l, r))
    /\ hist' = Append(hist, NoHistory)
    /\ UNCHANGED <<keys, states>>
    /\ UNCHANGED <<schedVars, kernelVars, taps>>

\* new NotButton(inner)
NewNotButton(i) ==
    /\ Len(buttons) < MaxButtons
    /\ buttons' = Append(buttons, NotObject(i))
    /\ hist' = Append(hist, NoHistory)
    /\ UNCHANGED <<keys, states>>
    /\ UNCHANGED <<schedVars, kernelVars, taps>>

\* canvas.onkeydown
\* (OnKeyDownWrites: the handler also sets the Keys of that name down.)
OnKeyDownWrites(name) ==
    /\ states' = states \cup {name}
    /\ buttons' = [i \in 1..Len(buttons) |->
                     IF buttons[i].kind = "Key" /\ buttons[i].key = name
                     THEN [buttons[i] EXCEPT !.state = TRUE] ELSE buttons[i]]
    /\ UNCHANGED <<keys, hist>>
    /\ UNCHANGED <<schedVars, kernelVars, taps>>
OnKeyDown(name) ==
    /\ states' = states \cup {name}
    /\ UNCHANGED <<buttons, keys, hist>>
    /\ UNCHANGED <<schedVars, kernelVars, taps>>

\* canvas.onkeyup
OnKeyUp(name) ==
    /\ states' = states \ {name}
    /\ UNCHANGED <<buttons, keys, hist>>
    /\ UNCHANGED <<schedVars, kernelVars, taps>>

\* keyboard.update(dt)
PollKeyboard ==
    /\ keys # << >>
    /\ buttons' = KeyboardUpdate(buttons, keys, states)
    /\ hist' = [i \in 1..Len(hist) |->
                  IF InSeq(i, keys) THEN Stepped(hist[i], buttons, i, states)
                  ELSE hist[i]]
    /\ UNCHANGED <<keys, states>>
    /\ UNCHANGED <<schedVars, kernelVars, taps>>

\* button.update(dt), called by game code on one button
StepButton(i) ==
    /\ buttons' = Update(buttons, i, states)
    /\ hist' = [hist EXCEPT ![i] = Stepped(hist[i], buttons, i, states)]
    /\ UNCHANGED <<keys, states>>
    /\ UNCHANGED <<schedVars, kernelVars, taps>>


\* ------------------------------------------------- the Keyboard, watched

\* taps[name]: "none", no key event of the name since the latest
\* Keyboard.update; "down", a key-down arrived since on a key that was up and
\* no key-up after it; "tapped", a key-up followed that key-down; "missed",
\* the latest Keyboard.update came upon "tapped"; "caught", it came upon
\* "down". The actions below are those of the Keyboard with taps kept; in
\* the other actions of the model taps is left alone.
InitTaps == taps = [name \in KeyNames |-> "none"]

\* canvas.onkeydown
WatchedKeyDown(name) ==
    /\ states' = states \cup {name}
    /\ taps' = IF name \in states THEN taps ELSE [taps EXCEPT ![name] = "down"]
    /\ UNCHANGED <<buttons, keys, hist>>
    /\ UNCHANGED <<schedVars, kernelVars>>

\* canvas.onkeyup
\* (WatchedKeyUpKeeps: the handler leaves the property of the key in place.)
WatchedKeyUpKeeps(name) ==
    /\ states' = states
    /\ taps' = [taps EXCEPT ![name] = IF @ = "down" THEN "tapped" ELSE "none"]
    /\ UNCHANGED <<buttons, keys, hist>>
    /\ UNCHANGED <<schedVars, kernelVars>>
WatchedKeyUp(name) ==
    /\ states' = states \ {name}
    /\ taps' = [taps EXCEPT ![name] = IF @ = "down" THEN "tapped" ELSE "none"]
    /\ UNCHANGED <<buttons, keys, hist>>
    /\ UNCHANGED <<schedVars, kernelVars>>

\* keyboard.update(dt), the only caller of Key.update here
WatchedPoll ==
    /\ buttons' = KeyboardUpdate(buttons, keys, states)
    /\ hist' = [i \in 1..Len(hist) |->
                  IF InSeq(i, keys) THEN Stepped(hist[i], buttons, i, states)
                  ELSE hist[i]]
    /\ taps' = [name \in KeyNames |->
                  IF taps[name] = "tapped" THEN "missed"
                  ELSE IF taps[name] = "down" THEN "caught" ELSE "none"]
    /\ UNCHANGED <<keys, states>>
    /\ UNCHANGED <<schedVars, kernelVars>>

NextKeys ==
    \/ \E name \in KeyNames : KeyboardKey(name)
    \/ \E name \in KeyNames : WatchedKeyDown(name)
    \/ \E name \in KeyNames : WatchedKeyUp(name)
    \/ WatchedPoll

\* ---------------------------------------------------------- KernelScheduler

\* The scheduler as the methods below pass it along: its fields, the number of
\* frame notifications it has requested, and the history obs.
Sched == [executing |-> executing, lastTick |-> lastTick,
          requested |-> requested, obs |-> obs]

\* obs: nCalls and lastDt are the number of callback invocations and the dt of
\* the latest; runBase, sumDt, accepted, firstT and firstDt describe the run
\* begun by the latest start() that took effect: lastTick at that start(), the
\* sum of the dt passed since, the timestamp of the latest accepted
\* notification, and the timestamp and dt of the first (-1: none yet);
\* everStopped tells whether stop() was ever called; notified lists the
\* timestamps delivered since construction, up to three (<<-1>>: more);
\* starts counts the start() calls made between frames since construction or
\* the latest stop() or notification, up to two.
NoObs == [nCalls |-> 0, lastDt |-> -1, runBase |-> 0, sumDt |-> 0,
          accepted |-> -1, firstT |-> -1, firstDt |-> -1,
          everStopped |-> FALSE, notified |-> << >>, starts |-> 0]

NoteStartCall(o) ==
    [o EXCEPT !.starts = IF @ < 2 THEN @ + 1 ELSE @]

NoteStart(o, base) ==
    [o EXCEPT !.runBase = base, !.sumDt = 0, !.accepted = -1,
              !.firstT = -1, !.firstDt = -1]

NoteCall(o, t, dt) ==
    [o EXCEPT !.nCalls = @ + 1, !.lastDt = dt, !.sumDt = @ + dt,
              !.accepted = t,
              !.firstT = IF o.firstT = -1 THEN t ELSE @,
              !.firstDt = IF o.firstT = -1 THEN dt ELSE @]

NoteNotified(o, t) ==
    [o EXCEPT !.notified = IF o.notified = <<-1>> \/ Len(o.notified) = 3
                           THEN <<-1>> ELSE Append(o.notified, t),
              !.starts = 0]

\* KernelScheduler.scheduleTick: window.requestAnimationFrame(...)
ScheduleTick(s) == [s EXCEPT !.requested = @ + 1]

\* KernelScheduler.start
\* (StartUnguarded: start without its test of executing.)
StartUnguarded(s) ==
    [ScheduleTick([s EXCEPT !.executing = TRUE])
        EXCEPT !.obs = NoteStart(s.obs, s.lastTick)]
Start(s) ==
    IF ~s.executing
    THEN [ScheduleTick([s EXCEPT !.executing = TRUE])
            EXCEPT !.obs = NoteStart(s.obs, s.lastTick)]
    ELSE s

\* KernelScheduler.stop
Stop(s) ==
    [s EXCEPT !.executing = FALSE, !.lastTick = 0,
              !.obs.everStopped = TRUE, !.obs.starts = 0]

\* The callback passed to the constructor: what it does to the scheduler is a
\* sequence of start() and stop() calls.
CallbackOps == {"start", "stop"}

RECURSIVE SeqsUpTo(_, _)
SeqsUpTo(S, n) ==
    IF n = 0 THEN {<< >>}
    ELSE LET shorter == SeqsUpTo(S, n - 1)
         IN  shorter \cup {Append(q, x) : q \in shorter, x \in S}

CallbackBodies == SeqsUpTo(CallbackOps, MaxCallbackOps)

RECURSIVE Callback(_, _)
Callback(body, s) ==
    IF body = << >> THEN s
    ELSE Callback(Tail(body),
                  IF Head(body) = "start" THEN Start(s) ELSE Stop(s))

\* time - this.lastTick > 1 / this.targetFPS, with both times in milliseconds
Due(elapsed) == elapsed * TargetFPS > 1000

\* KernelScheduler.tick(timeMS), its callback behaving as body
\* (TickStall: a skipped notification requests no further one.)
TickStall(s, timeMS, body) ==
    IF s.executing
    THEN LET elapsed == timeMS - s.lastTick
             called == Callback(body,
                          [s EXCEPT !.obs = NoteCall(s.obs, timeMS, elapsed)])
         IN  IF Due(elapsed)
             THEN ScheduleTick([called EXCEPT !.lastTick = timeMS])
             ELSE s
    ELSE s
\* (TickRebase: lastTick also set by a skipped notification.)
TickRebase(s, timeMS, body) ==
    IF s.executing
    THEN LET elapsed == timeMS - s.lastTick
             called == Callback(body,
                          [s EXCEPT !.obs = NoteCall(s.obs, timeMS, elapsed)])
         IN  ScheduleTick(IF Due(elapsed)
                          THEN [called EXCEPT !.lastTick = timeMS]
                          ELSE [s EXCEPT !.lastTick = timeMS])
    ELSE s
Tick(s, timeMS, body) ==
    IF s.executing
    THEN LET elapsed == timeMS - s.lastTick
             called == Callback(body,
                          [s EXCEPT !.obs = NoteCall(s.obs, timeMS, elapsed)])
         IN  ScheduleTick(IF Due(elapsed)
                          THEN [called EXCEPT !.lastTick = timeMS]
                          ELSE s)
    ELSE s

InitSched ==
    /\ executing = FALSE
    /\ lastTick = 0
    /\ requested = 0
    /\ inFrame = 0
    /\ clock = -1
    /\ obs = NoObs

Becomes(s) ==
    /\ executing' = s.executing
    /\ lastTick' = s.lastTick
    /\ requested' = s.requested
    /\ obs' = s.obs

\* scheduler.start(), called between frames
CallStart ==
    /\ inFrame = 0
    /\ requested < MaxPending
    /\ Becomes(Start([Sched EXCEPT !.obs = NoteStartCall(obs)]))
    /\ UNCHANGED <<inFrame, clock>>
    /\ UNCHANGED <<buttonVars, kernelVars, taps>>

\* scheduler.stop(), called between frames
CallStop ==
    /\ inFrame = 0
    /\ Becomes(Stop(Sched))
    /\ UNCHANGED <<inFrame, clock>>
    /\ UNCHANGED <<buttonVars, kernelVars, taps>>

\* The platform begins a frame at timestamp t: every notification requested
\* so far is due in it, with that timestamp.
BeginFrame(t) ==
    /\ inFrame = 0
    /\ requested > 0
    /\ t \in FrameTimes
    /\ t > clock
    /\ clock' = t
    /\ inFrame' = requested
    /\ requested' = 0
    /\ UNCHANGED <<executing, lastTick, obs>>
    /\ UNCHANGED <<buttonVars, kernelVars, taps>>

\* The platform delivers one notification of the current frame:
\* (t) => this.tick(t)
Notify(body) ==
    /\ inFrame > 0
    /\ LET s == Tick([Sched EXCEPT !.obs = NoteNotified(obs, clock)],
                     clock, body)
       IN  /\ s.requested + inFrame - 1 <= MaxPending
           /\ Becomes(s)
    /\ inFrame' = inFrame - 1
    /\ UNCHANGED clock
    /\ UNCHANGED <<buttonVars, kernelVars, taps>>

NextSched ==
    \/ CallStart
    \/ CallStop
    \/ \E t \in FrameTimes : BeginFrame(t)
    \/ \E body \in CallbackBodies : Notify(body)


\* ------------------------------------------------------------------- Kernel

\* Kernel.scene: the top of the stack, or null ("none")
Scene(st) == IF Len(st) > 0 THEN st[Len(st)] ELSE "none"

\* Kernel.push: scenes.push(scene)
Push(st, scene) == Append(st, scene)

\* Kernel.pop: scenes.pop(), which leaves an empty array empty
\* (PopBottom: shift() in place of pop().)
PopBottom(st) == IF st = << >> THEN st ELSE Tail(st)
Pop(st) == IF st = << >> THEN st ELSE SubSeq(st, 1, Len(st) - 1)

\* Kernel.swap: scenes.pop(); scenes.push(scene)
\* (SwapPushFirst: the push made before the pop.)
SwapPushFirst(st, scene) == Pop(Push(st, scene))
Swap(st, scene) == Push(Pop(st), scene)

\* A call of game code into the Kernel.
KernelCalls ==
    [op : {"push", "swap", "exec"}, arg : Scenes] \cup {[op |-> "pop", arg |-> "none"]}

\* log: the latest call (op, arg) with the stack it found (before), and the
\* stack the call before it found if that call was a push (back; <<"none">>
\* otherwise).
NoLog == [op |-> "none", arg |-> "none", before |-> << >>, back |-> <<"none">>]

NoteCall2(lg, call, st) ==
    [op |-> call.op, arg |-> call.arg, before |-> st,
     back |-> IF lg.op = "push" THEN lg.before ELSE <<"none">>]

\* The Kernel as the calls below pass it along: its stack, its scheduler and
\* the history log.
Kern == [scenes |-> scenes, sched |-> Sched, log |-> log]

\* One call: push, pop, swap or exec (push, canvas.focus(), scheduler.start()).
Call(k, call) ==
    LET noted == [k EXCEPT !.log = NoteCall2(k.log, call, k.scenes)] IN
    CASE call.op = "push" -> [noted EXCEPT !.scenes = Push(k.scenes, call.arg)]
      [] call.op = "pop"  -> [noted EXCEPT !.scenes = Pop(k.scenes)]
      [] call.op = "swap" -> [noted EXCEPT !.scenes = Swap(k.scenes, call.arg)]
      [] call.op = "exec" -> [noted EXCEPT !.scenes = Push(k.scenes, call.arg),
                                           !.sched = Start(k.sched)]

\* The calls a scene makes into the stack (exec is the entry point of the
\* game, called by testmain).
SceneCalls == {call \in KernelCalls : call.op # "exec"}

\* Scene.update(dt): what it does to the Kernel is a sequence of calls.
UpdateBodies == SeqsUpTo(SceneCalls, MaxUpdateOps)

RECURSIVE SceneUpdate(_, _)
SceneUpdate(body, k) ==
    IF body = << >> THEN k
    ELSE SceneUpdate(Tail(body), Call(k, Head(body)))

\* The scenes a body adds to the stack at most.
RECURSIVE Pushes(_)
Pushes(body) ==
    IF body = << >> THEN 0
    ELSE (IF Head(body).op \in {"push", "exec"} THEN 1 ELSE 0) + Pushes(Tail(body))

\* seen: the calls the latest tick made, in order (trace), the top of the
\* stack when it called render (after), isDown() of each registered Key as
\* the scene's update found it (down), and the parity of the number of ticks
\* so far (n).
NotSeen == [n |-> 0, trace |-> << >>, after |-> "none", down |-> << >>]

\* The calls of one Kernel.tick(dt), in order: keyboardDevice.update(dt);
\* scene.update(dt) if a scene was active; c.clearRect(...); scene.render(dt, c)
\* on the same scene. after is the top of the stack once update has returned.
\* (TickCallsRenderFirst: the render made before the clear.)
TickCallsRenderFirst(scene, after, dt) ==
    <<<<"poll", "keyboard", dt>>>>
    \o (IF scene # "none"
        THEN <<<<"update", scene, dt>>, <<"render", scene, dt>>>> ELSE << >>)
    \o <<<<"clear", "canvas", 0>>>>
\* (TickCallsSkipEmpty: a tick that returns at once when no scene is active.)
TickCallsSkipEmpty(scene, after, dt) ==
    IF scene = "none" THEN << >>
    ELSE <<<<"poll", "keyboard", dt>>, <<"update", scene, dt>>,
           <<"clear", "canvas", 0>>, <<"render", scene, dt>>>>
\* (TickCallsRenderTop: this.scene() asked again before the render.)
TickCallsRenderTop(scene, after, dt) ==
    <<<<"poll", "keyboard", dt>>>>
    \o (IF scene # "none" THEN <<<<"update", scene, dt>>>> ELSE << >>)
    \o <<<<"clear", "canvas", 0>>>>
    \o (IF after # "none" THEN <<<<"render", after, dt>>>> ELSE << >>)
TickCalls(scene, after, dt) ==
    <<<<"poll", "keyboard", dt>>>>
    \o (IF scene # "none" THEN <<<<"update", scene, dt>>>> ELSE << >>)
    \o <<<<"clear", "canvas", 0>>>>
    \o (IF scene # "none" THEN <<<<"render", scene, dt>>>> ELSE << >>)

\* isDown() of the registered Keys, in order, as scene.update(dt) finds them:
\* keyboardDevice.update(dt) has run.
KeysAtUpdate(bs, ks, raw) ==
    LET polled == KeyboardUpdate(bs, ks, raw)
    IN  [n \in 1..Len(ks) |-> IsDownIn(polled, ks[n])]

InitKernel ==
    /\ scenes = << >>
    /\ log = NoLog
    /\ seen = NotSeen

KernelBecomes(k) ==
    /\ scenes' = k.scenes
    /\ log' = k.log
    /\ Becomes(k.sched)

\* kernel.exec(scene), kernel.push(scene), kernel.pop() or kernel.swap(scene),
\* called outside a tick
CallKernel(call) ==
    /\ inFrame = 0
    /\ Len(scenes) + Pushes(<<call>>) <= MaxScenes
    /\ KernelBecomes(Call(Kern, call))
    /\ UNCHANGED <<inFrame, clock, seen>>
    /\ UNCHANGED <<buttonVars, taps>>

\* Kernel.tick(dt), invoked by the scheduler (started by exec) as its
\* callback, the active scene's update behaving as body. When and with which
\* dt the scheduler invokes it is KernelScheduler.tick's business.
KernelTick(dt, body) ==
    /\ executing
    /\ Len(scenes) + Pushes(body) <= MaxScenes
    /\ LET scene == Scene(scenes)
           k == IF scene # "none" THEN SceneUpdate(body, Kern) ELSE Kern
       IN  /\ KernelBecomes(k)
           /\ seen' = [n |-> 1 - seen.n,
                       trace |-> TickCalls(scene, Scene(k.scenes), dt),
                       after |-> Scene(k.scenes),
                       down |-> KeysAtUpdate(buttons, keys, states)]
    /\ buttons' = KeyboardUpdate(buttons, keys, states)
    /\ hist' = [i \in 1..Len(hist) |->
                  IF InSeq(i, keys) THEN Stepped(hist[i], buttons, i, states)
                  ELSE hist[i]]
    /\ UNCHANGED <<keys, states, inFrame, clock, taps>>

\* new Kernel(canvas); new TestScene(): the Key of the demo is registered.
InitDemo ==
    /\ buttons = <<KeyObject(CHOOSE name \in DemoKeys : TRUE)>>
    /\ keys = <<1>>
    /\ states = {}
    /\ hist = <<NoHistory>>
    /\ InitTaps
    /\ InitSched
    /\ InitKernel

NextKernel ==
    \/ \E call \in KernelCalls : CallKernel(call)
    \/ \E dt \in TickDts, body \in UpdateBodies : KernelTick(dt, body)
    \/ \E name \in DemoKeys : OnKeyDown(name)
    \/ \E name \in DemoKeys : OnKeyUp(name)

\* isDown() of an AndButton or OrButton is symmetric in its inner buttons, and
\* over one button twice it is that button's isDown(): they are constructed
\* over two different buttons, left created before right.
NextButtons ==
    \/ \E name \in KeyNames : KeyboardKey(name)
    \/ \E l, r \in 1..Len(buttons) : l < r /\ NewAndButton(l, r)
    \/ \E l, r \in 1..Len(buttons) : l < r /\ NewOrButton(l, r)
    \/ \E i \in 1..Len(buttons) : NewNotButton(i)
    \/ \E name \in KeyNames : OnKeyDown(name)
    \/ \E name \in KeyNames : OnKeyUp(name)
    \/ PollKeyboard
    \/ \E i \in 1..Len(buttons) : StepButton(i)

Init == InitButtons /\ InitTaps /\ InitSched /\ InitKernel

SpecButtons == Init /\ [][NextButtons]_vars

SpecSched == Init /\ [][NextSched]_vars

SpecKernel == InitDemo /\ [][NextKernel]_vars

SpecKeys == Init /\ [][NextKeys]_vars

\* The platform delivers what was requested: a frame begins as long as a
\* notification is requested and a later timestamp exists, and every
\* notification of a frame is delivered.
SpecSchedFair ==
    /\ Init /\ [][NextSched]_vars
    /\ WF_vars(\E t \in FrameTimes : BeginFrame(t))
    /\ WF_vars(\E body \in CallbackBodies : Notify(body))

\* ------------------------------------------------------- claims: buttons

Buttons == 1..Len(buttons)

\* C1: for every button whose update has been called, pressed() is true iff
\* isDown() is true now and was false when update was last called, and
\* release() is true iff isDown() is false now and was true when update was
\* last called; for a Key, pressed() is true iff the raw key was held at its
\* last update and not held at the update before (never sampled counts as not
\* held), and release() is the mirror.
EdgeDetection ==
    \A i \in Buttons :
        /\ hist[i].updated =>
              /\ Pressed(i) = (IsDown(i) /\ ~hist[i].down)
              /\ Release(i) = (~IsDown(i) /\ hist[i].down)
        /\ buttons[i].kind = "Key" =>
              /\ Pressed(i) = (hist[i].s1 /\ ~hist[i].s0)
              /\ Release(i) = (~hist[i].s1 /\ hist[i].s0)

\* A Key pressed after up, update, down, update, next to an updated composite
\* that reports release().
EdgeDetectionWitness ==
    \E i, j \in Buttons :
        /\ buttons[i].kind = "Key" /\ hist[i].updated
        /\ hist[i].s1 /\ ~hist[i].s0 /\ Pressed(i)
        /\ buttons[j].kind # "Key" /\ hist[j].updated /\ Release(j)

\* C2: a button whose update has never been called reports neither pressed()
\* nor release().
QuietBeforeFirstUpdate ==
    \A i \in Buttons :
        ~hist[i].updated => ~Pressed(i) /\ ~Release(i)

\* The store with the wasDown of every composite inverted.
FlipComposites(bs) ==
    [j \in 1..Len(bs) |->
        IF bs[j].kind = "Key" THEN bs[j]
        ELSE [bs[j] EXCEPT !.wasDown = ~bs[j].wasDown]]

\* C3: isDown() of an AndButton is the conjunction, of an OrButton the
\* disjunction and of a NotButton the negation of its inner buttons' current
\* isDown(), and no composite's wasDown has any influence on any isDown().
CompositePurity ==
    \A i \in Buttons :
        LET b == buttons[i] IN
        /\ b.kind = "And" => IsDown(i) = (IsDown(b.left) /\ IsDown(b.right))
        /\ b.kind = "Or"  => IsDown(i) = (IsDown(b.left) \/ IsDown(b.right))
        /\ b.kind = "Not" => IsDown(i) = ~IsDown(b.left)
        /\ IsDown(i) = IsDownIn(FlipComposites(buttons), i)

\* A composite over a composite, stepped while down and up now.
CompositePurityWitness ==
    \E i \in Buttons :
        /\ buttons[i].kind # "Key"
        /\ buttons[buttons[i].left].kind # "Key"
        /\ hist[i].updated /\ buttons[i].wasDown
        /\ ~IsDown(i)

\* ----------------------------------------------------- claims: scheduler

\* C4: start() on a running scheduler has no effect: it requests no frame
\* notification (while running, only a delivered notification adds a request)
\* and leaves lastTick alone, so that a scheduler that was started any number
\* of times and never stopped has exactly one outstanding request, and
\* lastTick 0 until its first notification.
StartIdempotent ==
    [][ /\ (executing /\ requested' > requested) => inFrame' < inFrame
        /\ (executing /\ executing' /\ inFrame' = inFrame) => lastTick' = lastTick
        /\ (executing' /\ ~obs'.everStopped) =>
              /\ requested' + inFrame' = 1
              /\ obs'.notified = << >> => lastTick' = 0
      ]_vars

\* start(); start() on a new scheduler.
StartIdempotentWitness ==
    /\ obs.starts = 2 /\ ~obs.everStopped /\ obs.notified = << >>
    /\ executing /\ requested = 1 /\ lastTick = 0

\* C5: a notification delivered to a running scheduler whose timestamp is
\* more than 1/targetFPS after lastTick invokes the callback once, with the
\* elapsed time, and sets lastTick to the timestamp; any other notification
\* invokes nothing and leaves lastTick. With notifications at 0, 5 and 20 ms
\* and no stop(), the callback has run once, with dt = 20 ms.
RateCap ==
    [][ /\ (inFrame' < inFrame /\ executing) =>
              LET elapsed == clock - lastTick IN
              IF elapsed * TargetFPS > 1000
              THEN /\ obs'.nCalls = obs.nCalls + 1
                   /\ obs'.lastDt = elapsed
                   /\ lastTick' = clock
              ELSE /\ obs'.nCalls = obs.nCalls
                   /\ lastTick' = lastTick
        /\ ~obs'.everStopped =>
              /\ obs'.notified \in {<<0>>, <<0, 5>>} => obs'.nCalls = 0
              /\ obs'.notified = <<0, 5, 20>> =>
                    obs'.nCalls = 1 /\ obs'.lastDt = 20
      ]_vars

\* The notifications of the example have been delivered.
RateCapWitness ==
    /\ obs.notified = <<0, 5, 20>> /\ ~obs.everStopped
    /\ obs.nCalls = 1 /\ lastTick = 20

\* C6: in a run (since the start() that set the scheduler running, no stop()
\* since), the dt passed to the callback add up to the timestamp of the latest
\* accepted notification minus the value lastTick had at that start().
SkippedTimeKept ==
    (executing /\ obs.accepted # -1) =>
        obs.sumDt = obs.accepted - obs.runBase

\* C7: once a notification handler or a stop() call has returned with the
\* scheduler stopped, lastTick is 0, and as long as it stays stopped the
\* callback is not invoked and no frame notification is requested.
StopHalts ==
    [][ /\ ~executing' => lastTick' = 0
        /\ (~executing /\ ~executing') =>
              /\ obs'.nCalls = obs.nCalls
              /\ requested' + inFrame' <= requested + inFrame
      ]_vars

\* C8: the first callback invocation of every run is passed the absolute
\* timestamp of its notification as dt.
FirstDtAbsolute ==
    obs.firstT # -1 => obs.firstDt = obs.firstT

\* ------------------------------------------------------- claims: the stack

\* C9: when the latest two calls on the Kernel were push(B) then pop(), the
\* stack is the one push(B) found, the same scenes in the same order; and a
\* step that is no tick calls no method of any scene.
PushPopRestores ==
    [][ /\ (log'.op = "pop" /\ log'.back # <<"none">>) => scenes' = log'.back
        /\ seen'.n = seen.n => seen'.trace = seen.trace
      ]_vars

\* push(A); push(B); pop() has left A active.
PushPopRestoresWitness ==
    /\ log.op = "pop" /\ log.before = <<"A", "B">> /\ log.back = <<"A">>
    /\ scenes = <<"A">>

\* C10: after swap(C) on a stack of two scenes or more, the stack is the one
\* swap found with its top replaced by C, and a tick that follows the swap
\* finds C active: it calls C's update.
SwapReplacesTop ==
    [][ /\ (log'.op = "swap" /\ Len(log'.before) >= 2) =>
              /\ Len(scenes') = Len(log'.before)
              /\ scenes'[Len(scenes')] = log'.arg
              /\ \A i \in 1..(Len(scenes') - 1) : scenes'[i] = log'.before[i]
        /\ (seen'.n # seen.n /\ log.op = "swap" /\ Len(log.before) >= 2) =>
              /\ seen'.trace[2][1] = "update"
              /\ seen'.trace[2][2] = log.arg
      ]_vars

\* swap(C) on A, B and a tick after it.
SwapReplacesTopWitness ==
    /\ log.op = "swap" /\ log.arg = "C" /\ log.before = <<"A", "B">>
    /\ scenes = <<"A", "C">>
    /\ Len(seen.trace) = 4 /\ seen.trace[2][2] = "C"

\* ------------------------------------------------------- claims: the tick

\* A step that is a Kernel.tick: the tick parity has flipped.
IsTick == seen'.n # seen.n

\* The kinds of the calls a tick made, in order.
Kinds(trace) == [i \in 1..Len(trace) |-> trace[i][1]]

\* C11: every update and every render a tick delivers goes to the scene that
\* is the top of the stack at the moment of the call: update to the top the
\* tick found, render to the top the scene's update has left.
OnlyTopIsCalled ==
    [][ IsTick =>
          \A i \in 1..Len(seen'.trace) :
              /\ seen'.trace[i][1] = "update" => seen'.trace[i][2] = Scene(scenes)
              /\ seen'.trace[i][1] = "render" => seen'.trace[i][2] = Scene(scenes')
      ]_vars

\* C12: a tick with an active scene makes exactly these calls in this order,
\* all with the tick's dt: keyboard update, scene update, clear, scene render;
\* the keyboard update has stepped every registered Key, and the scene's
\* update finds every Key's isDown() equal to the raw flag of the Key's name
\* at this tick.
TickOrder ==
    [][ (IsTick /\ scenes # << >>) =>
          /\ Kinds(seen'.trace) = <<"poll", "update", "clear", "render">>
          /\ \E dt \in TickDts :
                /\ seen'.trace[1][3] = dt
                /\ seen'.trace[2][3] = dt
                /\ seen'.trace[4][3] = dt
          /\ Len(seen'.down) = Len(keys)
          /\ \A n \in 1..Len(keys) :
                /\ seen'.down[n] = (buttons[keys[n]].key \in states)
                /\ hist'[keys[n]].updated
                /\ buttons'[keys[n]].wasDown = buttons[keys[n]].state
      ]_vars

\* A tick on an active scene whose update found the Key newly down.
TickOrderWitness ==
    /\ Len(seen.trace) = 4
    /\ seen.down = <<TRUE>>
    /\ Pressed(1)

\* C13: a tick on an empty stack calls no scene: it makes the keyboard update
\* and the clear and nothing else, every registered Key is stepped, and the
\* stack is still empty when the tick returns.
EmptyTick ==
    [][ (IsTick /\ scenes = << >>) =>
          /\ Kinds(seen'.trace) = <<"poll", "clear">>
          /\ scenes' = << >>
          /\ \A n \in 1..Len(keys) :
                /\ hist'[keys[n]].updated
                /\ buttons'[keys[n]].state = (buttons[keys[n]].key \in states)
                /\ buttons'[keys[n]].wasDown = buttons[keys[n]].state
      ]_vars

\* exec(A); pop(); key-down; tick: the scheduler runs on an empty stack and
\* the tick has sampled the Key down.
EmptyTickWitness ==
    /\ scenes = << >> /\ executing
    /\ Len(seen.trace) = 2 /\ seen.after = "none"
    /\ IsDown(1) /\ hist[1].updated

KeyButtons == {i \in 1..Len(buttons) : buttons[i].kind = "Key"}
Composites == {i \in 1..Len(buttons) : buttons[i].kind # "Key"}

\* C14: a step that changes the raw map changes no field of any Key, so
\* isDown(), pressed() and release() of every Key stay as they are; the
\* fields of a Key change only in an update of that Key, which leaves the raw
\* map alone and sets state to whether the Key's name is in the raw map (a
\* name not in it is sampled as up); isDown() is the sample taken by the
\* Key's latest update, whatever the raw map holds now.
RawEventsOnlyTouchMap ==
    [][ \A i \in KeyButtons :
          /\ states' # states =>
                /\ buttons'[i] = buttons[i]
                /\ IsDownIn(buttons', i) = IsDown(i)
                /\ PressedIn(buttons', i) = Pressed(i)
                /\ ReleaseIn(buttons', i) = Release(i)
          /\ buttons'[i] # buttons[i] =>
                /\ states' = states
                /\ hist'[i].updated
                /\ buttons'[i].state = (buttons[i].key \in states)
                /\ buttons'[i].wasDown = buttons[i].state
          /\ IsDownIn(buttons', i) = hist'[i].s1
      ]_vars

\* A key-down has arrived after the Key's update: the raw map holds the name,
\* the Key still reports up and not pressed.
RawEventsOnlyTouchMapWitness ==
    \E i \in KeyButtons :
        /\ hist[i].updated
        /\ buttons[i].key \in states
        /\ ~IsDown(i) /\ ~Pressed(i) /\ ~Release(i)

\* C15: Keyboard.key(name) appends a new Key, up and with wasDown false, to
\* the buttons and to the keys the Keyboard steps, and touches no other
\* button; every Key is registered; and when Keyboard.update returns, every
\* Key has been stepped and all Keys of one name report the same isDown().
SameNameSameSample ==
    [][ /\ Len(keys') > Len(keys) =>
              /\ buttons' = Append(buttons, buttons'[Len(buttons')])
              /\ buttons'[Len(buttons')].kind = "Key"
              /\ ~buttons'[Len(buttons')].state
              /\ ~buttons'[Len(buttons')].wasDown
              /\ keys' = Append(keys, Len(buttons'))
        /\ \A i \in 1..Len(buttons') :
              buttons'[i].kind = "Key" => InSeq(i, keys')
        /\ PollKeyboard =>
              \A i, j \in KeyButtons :
                  /\ hist'[i].updated
                  /\ buttons[i].key = buttons[j].key =>
                        IsDownIn(buttons', i) = IsDownIn(buttons', j)
      ]_vars

\* Two Keys of one name, the second created after the first had been stepped
\* with the key held: both report down, only the second reports pressed.
SameNameSameSampleWitness ==
    \E i, j \in KeyButtons :
        /\ i < j /\ buttons[i].key = buttons[j].key
        /\ hist[i].updated /\ hist[j].updated
        /\ IsDown(i) /\ IsDown(j)
        /\ ~Pressed(i) /\ Pressed(j)

\* C16: Keyboard.update changes no composite (its wasDown, and the record of
\* its updates, stay as they are); the wasDown of a composite changes only in
\* an update of that composite, which sets it to the composite's isDown().
CompositesNotPolled ==
    [][ \A i \in Composites :
          /\ PollKeyboard => (buttons'[i] = buttons[i] /\ hist'[i] = hist[i])
          /\ buttons'[i].wasDown # buttons[i].wasDown =>
                /\ buttons'[i].wasDown = IsDown(i)
                /\ hist'[i].updated /\ hist'[i].down = IsDown(i)
                /\ states' = states
      ]_vars

\* A composite over a Key that two polls sampled down: the Key no longer
\* reports pressed, the composite, never updated, still does.
CompositesNotPolledWitness ==
    \E i \in Composites :
        /\ buttons[i].kind \in {"And", "Or"}
        /\ ~hist[i].updated
        /\ Pressed(i)
        /\ IsDown(buttons[i].left) /\ buttons[buttons[i].left].wasDown
        /\ buttons[buttons[i].left].kind = "Key"

\* -------------------------------------------- claims: the notification loop

\* The latest timestamp the platform delivers.
LastFrameTime == CHOOSE t \in FrameTimes : \A u \in FrameTimes : u <= t

\* A step that delivers a notification.
IsNotify == inFrame' < inFrame

\* The callback of the notification delivered by this step called a start()
\* that took effect.
RestartedInCallback == obs'.nCalls > obs.nCalls /\ obs'.accepted = -1

\* The scheduler runs, its callback was invoked n times, and the platform
\* still has a timestamp to deliver that is due after lastTick.
Waiting(n) ==
    /\ executing /\ obs.nCalls = n
    /\ clock < LastFrameTime
    /\ Due(LastFrameTime - lastTick)

\* The callback was invoked more than n times, or the scheduler is stopped.
Served(n) == obs.nCalls > n \/ ~executing

\* C17: the handler of a notification delivered to a running scheduler
\* requests exactly one notification, whether or not it invoked the callback
\* (a start() that takes effect inside the callback requests its own), so a
\* running scheduler always has a request outstanding; and as long as the
\* platform still has a timestamp to deliver that is more than 1/TargetFPS
\* after lastTick, a running scheduler is stopped or its callback is invoked
\* once more.
NeverStalls ==
    /\ [][ /\ (IsNotify /\ executing) =>
                 /\ requested' >= requested + 1
                 /\ ~RestartedInCallback => requested' = requested + 1
           /\ executing' => requested' + inFrame' >= 1
         ]_vars
    /\ \A n \in 0..Cardinality(FrameTimes) : Waiting(n) ~> Served(n)

\* start(); two notifications skipped (0 ms, 16 ms), the third (34 ms)
\* invoked the callback, and the next is requested.
NeverStallsWitness ==
    /\ executing /\ ~obs.everStopped
    /\ obs.notified = <<0, 16, 34>>
    /\ obs.nCalls = 1 /\ lastTick = 34
    /\ requested = 1 /\ inFrame = 0

\* C18: at any time at most one frame notification is requested and not yet
\* delivered.
AtMostOneRequest ==
    requested + inFrame <= 1

\* ------------------------------------------------------------ claims: taps

\* The Keys bound to a name.
KeysOf(name) == {i \in KeyButtons : buttons[i].key = name}

\* A key-down and its key-up between two Keyboard.update calls leave no Key
\* of the name down or pressed, and none released unless the update before
\* had sampled it down.
TapMissed ==
    \A name \in KeyNames : \A i \in KeysOf(name) :
        taps[name] = "missed" =>
            /\ ~IsDown(i) /\ ~Pressed(i)
            /\ Release(i) => hist[i].s0

\* C20 as stated: a tap between two Keyboard.update calls is missed, and a
\* Key whose latest update found its key held reports pressed() until its
\* next update.
TapsMissedHoldsPressed ==
    /\ TapMissed
    /\ \A i \in KeyButtons : hist[i].s1 => Pressed(i)

\* C20: a tap between two Keyboard.update calls is missed; a key pressed
\* since the latest Keyboard.update but one and held at the latest makes every
\* Key of its name stepped by it report down; and a Key reports pressed()
\* exactly when its latest update found the key held and its update before
\* that one did not.
TapsMissedPressesCaught ==
    /\ TapMissed
    /\ \A name \in KeyNames : \A i \in KeysOf(name) :
          /\ (taps[name] = "caught" /\ hist[i].updated) => IsDown(i)
          /\ Pressed(i) = (hist[i].s1 /\ ~hist[i].s0)

\* One Keyboard.update came upon a tap of Enter and a press of Shift still
\* held: the Key of Enter is up, not pressed and not released, the Key of
\* Shift reports pressed.
TapsMissedPressesCaughtWitness ==
    /\ taps["Enter"] = "missed" /\ taps["Shift"] = "caught"
    /\ \E i \in KeysOf("Enter") :
          hist[i].updated /\ ~IsDown(i) /\ ~Pressed(i) /\ ~Release(i)
    /\ \E j \in KeysOf("Shift") : hist[j].updated /\ Pressed(j)

====
